---- MODULE Spec2Model ----
(***************************************************************************)
(* Model of the emoji suggester plugin (EmojiSuggesterPlugin,              *)
(* EmojiSuggester, EmojiSuggesterSettingTab).                              *)
(*                                                                         *)
(* Strings are sequences of characters.  A character is written as a short *)
(* ASCII token: "a", "A" (Latin), "zh" (a Cyrillic letter of the range     *)
(* U+0410..U+044F), "ny" (a letter of the Spanish set), "iq" (the inverted *)
(* question mark), "1" (a digit), " ", "(" and ")".                        *)
(***************************************************************************)
EXTENDS Integers, Sequences, FiniteSets, TLC

VARIABLES
    persisted,           \* what loadData() gave loadSettings (its local,
                         \* gone with onload's next step)
    subString,           \* the text of the line before the cursor
    triggerInfo,         \* what onTrigger returned for it (or null)
    phase,               \* how far onload() has run
    emojiSearch,         \* plugin.emojiSearch is an EmojiSearch (not null)
    registered,          \* the EmojiSuggester is registered with the host
    lastInitialize,      \* how the latest initialize() call ended
    settings,            \* plugin.settings (shared with the suggester)
    engineLangs,         \* languages loaded in the WASM engine
    pendingSaves,        \* saveSettings() calls waiting on saveData()
    called,              \* a getSuggestions() call has returned to the host
    ctxQuery,            \* context.query of that call
    languagesToSearch,   \* the language list handed to search_multiple
    engineReturn,        \* what search_multiple returned (or that it threw)
    emojisWithKeywords,  \* the sorted (emoji, keyword) pairs of that call
    suggestions,         \* the list getSuggestions returned
    raised               \* an exception escaped getSuggestions

callVars == <<called, ctxQuery, languagesToSearch, engineReturn,
              emojisWithKeywords, suggestions, raised>>
loadVars == <<persisted, phase, emojiSearch, registered>>
editorVars == <<subString, triggerInfo>>
vars == <<persisted, subString, triggerInfo, phase, emojiSearch, registered, lastInitialize, settings,
          engineLangs, pendingSaves, called, ctxQuery, languagesToSearch,
          engineReturn, emojisWithKeywords, suggestions, raised>>

----------------------------------------------------------------------------
(* Bounds *)

MaxQueryLen == 2
MaxPop == 1
MaxPending == 1
MaxLineLen == 4

----------------------------------------------------------------------------
(* Characters and regular-expression classes *)

LatinLetters == {"a", "A"}
CyrillicRange == {"zh"}
SpanishLetters == {"ny"}
SpanishDiacritics == SpanishLetters \cup {"iq"}

TriggerFirstClass == LatinLetters \cup CyrillicRange \cup SpanishLetters
TriggerRestClass == TriggerFirstClass \cup {" "}

LowerChar(c) == IF c = "A" THEN "a" ELSE c
toLowerCase(s) == [i \in DOMAIN s |-> LowerChar(s[i])]

includes(s, t) ==
    \E i \in 0..(Len(s) - Len(t)) : SubSeq(s, i + 1, i + Len(t)) = t

RegexTest(class, s) == \E i \in DOMAIN s : s[i] \in class

SeqsUpTo(S, n) == UNION {[1..k -> S] : k \in 0..n}

\* The queries onTrigger can hand to getSuggestions: match[1].trim().
TriggerQueries ==
    {q \in SeqsUpTo(TriggerRestClass, MaxQueryLen) :
        /\ Len(q) >= 1
        /\ q[1] \in TriggerFirstClass
        /\ q[Len(q)] # " "}

----------------------------------------------------------------------------
(* Settings *)

E1 == <<"e1">>
E2 == <<"e2">>
E3 == <<"e3">>

AVAILABLE_LANGUAGES == {"english", "russian", "spanish"}

DEFAULT_SETTINGS ==
    [chosenLanguages |-> <<"english">>,
     triggerChar |-> <<":">>,
     showKeywords |-> TRUE,
     emojiPopularity |-> <<>>,
     customEmojiMappings |-> <<>>]

\* A JSON object is a function from the names of its members to their values.
\* What loadData() may yield to a session of the whole plugin: nothing, a
\* saved empty language list, the legacy single-language field, or a saved
\* list with a language that has no bundled dictionary.
PersistedData ==
    {<<>>,
     [chosenLanguages |-> <<>>],
     [defaultLanguage |-> "russian"],
     [chosenLanguages |-> <<"german">>]}

\* The migration also overwrites a chosenLanguages member that is there.
loadSettings_MigrationOverwrites(loaded) ==
    LET migrate == "defaultLanguage" \in DOMAIN loaded
        migrated ==
            IF migrate
            THEN [f \in (DOMAIN loaded \ {"defaultLanguage"}) \cup {"chosenLanguages"} |->
                     IF f = "chosenLanguages" THEN <<loaded.defaultLanguage>> ELSE loaded[f]]
            ELSE loaded
    IN  [f \in DOMAIN DEFAULT_SETTINGS \cup DOMAIN migrated |->
            IF f \in DOMAIN migrated THEN migrated[f] ELSE DEFAULT_SETTINGS[f]]

\* loadSettings: the legacy member becomes the language list when there is
\* none, then { ...DEFAULT_SETTINGS, ...loadedSettings }.
loadSettings(loaded) ==
    LET migrate == /\ "defaultLanguage" \in DOMAIN loaded
                   /\ loaded.defaultLanguage # ""
                   /\ "chosenLanguages" \notin DOMAIN loaded
        migrated ==
            IF migrate
            THEN [f \in (DOMAIN loaded \ {"defaultLanguage"}) \cup {"chosenLanguages"} |->
                     IF f = "chosenLanguages" THEN <<loaded.defaultLanguage>> ELSE loaded[f]]
            ELSE loaded
    IN  [f \in DOMAIN DEFAULT_SETTINGS \cup DOMAIN migrated |->
            IF f \in DOMAIN migrated THEN migrated[f] ELSE DEFAULT_SETTINGS[f]]

\* A plain object used as a string-keyed table, in insertion order.
ObjKeys(obj) == {obj[i][1] : i \in DOMAIN obj}
ObjSet(obj, k, v) ==
    IF k \in ObjKeys(obj)
    THEN [i \in DOMAIN obj |-> IF obj[i][1] = k THEN <<k, v>> ELSE obj[i]]
    ELSE Append(obj, <<k, v>>)
ObjDelete(obj, k) == SelectSeq(obj, LAMBDA e : e[1] # k)

\* emojiPopularity[emoji] || 0
Popularity(table, emoji) ==
    IF emoji \in DOMAIN table THEN table[emoji] ELSE 0

----------------------------------------------------------------------------
(* The engine: bundled dictionaries and containment search *)

emojiData(lang) ==
    CASE lang = "english" ->
            <<[keyword |-> <<"a", "1">>, emojis |-> <<E2, E1>>],
              [keyword |-> <<"1", "A">>, emojis |-> <<E1>>]>>
      [] lang = "russian" ->
            <<[keyword |-> <<"zh", "a">>, emojis |-> <<E1>>]>>
      [] lang = "spanish" ->
            <<[keyword |-> <<"ny", "a">>, emojis |-> <<E1>>],
              [keyword |-> <<"a">>, emojis |-> <<E2>>]>>
      [] OTHER -> <<>>

BundledLanguages == {"english", "russian", "spanish"}

\* Every bundled dictionary is handed to the engine, chosen or not.
filteredData_AllBundled(chosen) == BundledLanguages

\* The languages reinitializeEmojiSearch loads.
filteredData(chosen) == {chosen[i] : i \in DOMAIN chosen} \cap BundledLanguages

search(loadedLangs, query, lang) ==
    IF lang \notin loadedLangs \/ query = <<>>
    THEN <<>>
    ELSE SelectSeq(emojiData(lang),
                   LAMBDA e : includes(toLowerCase(e.keyword), toLowerCase(query)))

RECURSIVE search_multiple(_, _, _)
search_multiple(loadedLangs, query, langs) ==
    IF langs = <<>>
    THEN <<>>
    ELSE search(loadedLangs, query, Head(langs))
            \o search_multiple(loadedLangs, query, Tail(langs))

\* What the call this.emojiSearch.search_multiple(...) hands back.  kind:
\*   "pairs"  a JSON text of a list of [keyword, emojis] elements
\*   "scalar" a JSON text of a value that is not iterable (null, number, object)
\*   "text"   a text JSON.parse rejects
\*   "throw"  the call itself threw
\* form of the emojis member of an element: "list", "string" (a JSON string,
\* whose iteration yields its code points) or "missing".
EngineFaults == {"none", "throw", "text", "scalar", "string", "missing"}

EngineCall(loadedLangs, query, langs, fault) ==
    LET honest == search_multiple(loadedLangs, query, langs)
        form == IF fault \in {"string", "missing"} THEN fault ELSE "list"
    IN  IF fault \in {"throw", "text", "scalar"}
        THEN [kind |-> fault, pairs |-> <<>>]
        ELSE [kind |-> "pairs",
              pairs |-> [i \in DOMAIN honest |->
                            [keyword |-> honest[i].keyword,
                             emojis |-> IF form = "missing" THEN <<>> ELSE honest[i].emojis,
                             form |-> form]]]

----------------------------------------------------------------------------
(* EmojiSuggester.getSuggestions *)

\* The Spanish test made before the Cyrillic one.
DetectLanguage_SpanishFirst(query, lang) ==
    IF RegexTest(SpanishDiacritics, query)
    THEN lang = "spanish"
    ELSE IF RegexTest(CyrillicRange, query)
         THEN lang = "russian"
         ELSE lang # "russian"

\* No Spanish rule: a query without Cyrillic takes the Latin default.
DetectLanguage_NoSpanishRule(query, lang) ==
    IF RegexTest(CyrillicRange, query)
    THEN lang = "russian"
    ELSE lang # "russian"

\* The Latin default keeps every language.
DetectLanguage_LatinKeepsAll(query, lang) ==
    IF RegexTest(CyrillicRange, query)
    THEN lang = "russian"
    ELSE IF RegexTest(SpanishDiacritics, query)
         THEN lang = "spanish"
         ELSE TRUE

\* chosenLanguages.filter(lang => ...)
DetectLanguage(query, lang) ==
    IF RegexTest(CyrillicRange, query)
    THEN lang = "russian"
    ELSE IF RegexTest(SpanishDiacritics, query)
         THEN lang = "spanish"
         ELSE lang # "russian"

detectedLanguages(chosen, query) ==
    SelectSeq(chosen, LAMBDA lang : DetectLanguage(query, lang))

\* No fallback: the narrowed list is used as it is.
LanguagesToSearch_NoFallback(chosen, query) == detectedLanguages(chosen, query)

LanguagesToSearch(chosen, query) ==
    IF Len(detectedLanguages(chosen, query)) > 0
    THEN detectedLanguages(chosen, query)
    ELSE chosen

\* A Map<string, string> in insertion order: a sequence of <<emoji, keyword>>.
MapHas(m, k) == \E i \in DOMAIN m : m[i][1] = k
\* A set that moves an existing key to the end (delete, then insert).
MapSet_MovesToEnd(m, k, v) ==
    Append(SelectSeq(m, LAMBDA e : e[1] # k), <<k, v>>)

MapSet(m, k, v) ==
    IF MapHas(m, k)
    THEN [i \in DOMAIN m |-> IF m[i][1] = k THEN <<k, v>> ELSE m[i]]
    ELSE Append(m, <<k, v>>)

\* Every listed emoji is appended, seen before or not.
AddEmojis_NoHasCheck(m, keyword, emojis) ==
    m \o [i \in DOMAIN emojis |-> <<emojis[i], keyword>>]

\* The keyword of the last element that lists an emoji replaces the first.
RECURSIVE AddEmojis_LastWins(_, _, _)
AddEmojis_LastWins(m, keyword, emojis) ==
    IF emojis = <<>>
    THEN m
    ELSE AddEmojis_LastWins(MapSet(m, Head(emojis), keyword), keyword, Tail(emojis))

\* for (const emoji of emojis) if (!emojiMap.has(emoji)) emojiMap.set(emoji, keyword)
RECURSIVE AddEmojis(_, _, _)
AddEmojis(m, keyword, emojis) ==
    IF emojis = <<>>
    THEN m
    ELSE AddEmojis(IF MapHas(m, Head(emojis)) THEN m ELSE MapSet(m, Head(emojis), keyword),
                   keyword, Tail(emojis))

\* Only the first element of the engine's answer is merged.
AddSearchResults_FirstElementOnly(m, results) ==
    IF results = <<>>
    THEN m
    ELSE AddEmojis(m, Head(results).keyword, Head(results).emojis)

\* for (const [keyword, emojis] of results)
RECURSIVE AddSearchResults(_, _)
AddSearchResults(m, results) ==
    IF results = <<>>
    THEN m
    ELSE AddSearchResults(AddEmojis(m, Head(results).keyword, Head(results).emojis),
                          Tail(results))

\* A custom mapping that does not overwrite an entry of the map.
RECURSIVE AddCustomMappings_NoOverwrite(_, _, _)
AddCustomMappings_NoOverwrite(m, query, entries) ==
    IF entries = <<>>
    THEN m
    ELSE AddCustomMappings_NoOverwrite(
            IF /\ includes(toLowerCase(Head(entries)[1]), toLowerCase(query))
               /\ ~MapHas(m, Head(entries)[2])
            THEN MapSet(m, Head(entries)[2], Head(entries)[1])
            ELSE m,
            query, Tail(entries))

\* for (const [keyword, emoji] of Object.entries(customEmojiMappings))
RECURSIVE AddCustomMappings(_, _, _)
AddCustomMappings(m, query, entries) ==
    IF entries = <<>>
    THEN m
    ELSE AddCustomMappings(
            IF includes(toLowerCase(Head(entries)[1]), toLowerCase(query))
            THEN MapSet(m, Head(entries)[2], Head(entries)[1])
            ELSE m,
            query, Tail(entries))

\* The comparison the other way round: popA - popB.
ComparePopularity_Ascending(a, b, table) == Popularity(table, a[1]) - Popularity(table, b[1])

\* (a, b) => popB - popA
ComparePopularity(a, b, table) == Popularity(table, b[1]) - Popularity(table, a[1])

\* A sort that keeps one element of each group that compares equal.
SortedInsert_DropsTies(sorted, x, table) ==
    LET k == Cardinality({i \in DOMAIN sorted : ComparePopularity(sorted[i], x, table) <= 0})
    IN  IF \E i \in DOMAIN sorted : ComparePopularity(sorted[i], x, table) = 0
        THEN sorted
        ELSE SubSeq(sorted, 1, k) \o <<x>> \o SubSeq(sorted, k + 1, Len(sorted))

\* Array.prototype.sort is stable: an element goes after every element that
\* does not compare greater than it.
SortedInsert(sorted, x, table) ==
    LET k == Cardinality({i \in DOMAIN sorted : ComparePopularity(sorted[i], x, table) <= 0})
    IN  SubSeq(sorted, 1, k) \o <<x>> \o SubSeq(sorted, k + 1, Len(sorted))

RECURSIVE SortFrom(_, _, _)
SortFrom(sorted, rest, table) ==
    IF rest = <<>>
    THEN sorted
    ELSE SortFrom(SortedInsert(sorted, Head(rest), table), Tail(rest), table)

SortByPopularity(entries, table) == SortFrom(<<>>, entries, table)

\* `${emoji} (${keyword})` or the emoji alone
RenderSuggestion(entry, showKeywords) ==
    IF showKeywords
    THEN entry[1] \o <<" ", "(">> \o entry[2] \o <<")">>
    ELSE entry[1]

\* The statements of the try block throw: search_multiple, JSON.parse, or the
\* iteration of something that is not iterable.
TryThrows(ret) ==
    \/ ret.kind \in {"throw", "text", "scalar"}
    \/ \E i \in DOMAIN ret.pairs : ret.pairs[i].form = "missing"

\* No catch: the exception reaches the caller.
TryCatch_Rethrows(throws, value) ==
    IF throws
    THEN [raised |-> TRUE, value |-> <<>>]
    ELSE [raised |-> FALSE, value |-> value]

\* try { ... } catch (error) { return []; }
TryCatch(throws, value) ==
    IF throws
    THEN [raised |-> FALSE, value |-> <<>>]
    ELSE [raised |-> FALSE, value |-> value]

RankedEntries(s, query, ret) ==
    SortByPopularity(
        AddCustomMappings(AddSearchResults(<<>>, ret.pairs), query, s.customEmojiMappings),
        s.emojiPopularity)

----------------------------------------------------------------------------
(* Actions *)

NoCall ==
    /\ called' = FALSE
    /\ ctxQuery' = <<>>
    /\ languagesToSearch' = <<>>
    /\ engineReturn' = [kind |-> "pairs", pairs |-> <<>>]
    /\ emojisWithKeywords' = <<>>
    /\ suggestions' = <<>>
    /\ raised' = FALSE

InitCall ==
    /\ called = FALSE
    /\ ctxQuery = <<>>
    /\ languagesToSearch = <<>>
    /\ engineReturn = [kind |-> "pairs", pairs |-> <<>>]
    /\ emojisWithKeywords = <<>>
    /\ suggestions = <<>>
    /\ raised = FALSE

\* String.prototype.trim, on a text whose only whitespace is the space.
RECURSIVE trimEnd(_)
trimEnd(s) ==
    IF s # <<>> /\ s[Len(s)] = " " THEN trimEnd(SubSeq(s, 1, Len(s) - 1)) ELSE s

RECURSIVE trimStart(_)
trimStart(s) == IF s # <<>> /\ s[1] = " " THEN trimStart(Tail(s)) ELSE s

trim(s) == trimEnd(trimStart(s))

\* t occurs in s at the 0-based position i.
StartsAt(s, t, i) ==
    /\ i + Len(t) <= Len(s)
    /\ SubSeq(s, i + 1, i + Len(t)) = t

\* String.prototype.lastIndexOf
lastIndexOf(s, t) ==
    IF \E i \in 0..Len(s) : StartsAt(s, t, i)
    THEN CHOOSE i \in 0..Len(s) :
            /\ StartsAt(s, t, i)
            /\ \A j \in (i + 1)..Len(s) : ~StartsAt(s, t, j)
    ELSE -1

\* What follows the occurrence of t at i, up to the end of s.
Capture(s, t, i) == SubSeq(s, i + Len(t) + 1, Len(s))

\* The capture group without its first class: ([letters and space]*)$
MatchesAt_AnyFirst(s, t, i) ==
    /\ StartsAt(s, t, i)
    /\ \A k \in DOMAIN Capture(s, t, i) : Capture(s, t, i)[k] \in TriggerRestClass

\* The regular expression `${escapedTrigger}([letters][letters and space]*)$`
\* matches s from position i (the escaping makes the trigger a literal).
MatchesAt(s, t, i) ==
    /\ StartsAt(s, t, i)
    /\ Len(Capture(s, t, i)) >= 1
    /\ Capture(s, t, i)[1] \in TriggerFirstClass
    /\ \A k \in DOMAIN Capture(s, t, i) : Capture(s, t, i)[k] \in TriggerRestClass

\* String.prototype.match without the g flag: the leftmost match.
MatchIndex(s, t) ==
    CHOOSE i \in 0..Len(s) :
        /\ MatchesAt(s, t, i)
        /\ \A j \in 0..(i - 1) : ~MatchesAt(s, t, j)

\* onTrigger's null: no trigger is active.
NoTrigger == [matched |-> FALSE, start |-> 0, end |-> 0, query |-> <<>>]

\* EmojiSuggester.onTrigger on the text before the cursor
onTrigger(s, t) ==
    IF ~\E i \in 0..Len(s) : MatchesAt(s, t, i)
    THEN NoTrigger
    ELSE [matched |-> TRUE,
          start |-> lastIndexOf(s, t),
          end |-> Len(s),
          query |-> trim(Capture(s, t, MatchIndex(s, t)))]

\* The host calls onTrigger after a keystroke, with the cursor behind `line`.
OnTrigger(line) ==
    /\ registered
    /\ ~called
    /\ subString' = line
    /\ triggerInfo' = onTrigger(line, settings.triggerChar)
    /\ UNCHANGED <<loadVars, lastInitialize, settings, engineLangs,
                   pendingSaves, callVars>>

\* The plugin object before onload(): no engine, no suggester.  The settings
\* field is unset until loadSettings; the model keeps the defaults there, and
\* nothing reads the field before loadSettings has written it.
Init ==
    /\ persisted = <<>>
    /\ subString = <<>>
    /\ triggerInfo = NoTrigger
    /\ phase = "constructed"
    /\ emojiSearch = FALSE
    /\ registered = FALSE
    /\ lastInitialize = "none"
    /\ settings = DEFAULT_SETTINGS
    /\ engineLangs = {}
    /\ pendingSaves = 0
    /\ InitCall

\* onload: await this.loadSettings()
OnloadLoadSettings(loaded) ==
    /\ phase = "constructed"
    /\ phase' = "settings"
    /\ settings' = loadSettings(loaded)
    /\ persisted' = loaded
    /\ UNCHANGED <<editorVars, emojiSearch, registered, lastInitialize,
                   engineLangs, pendingSaves, callVars>>

\* The suggester registered as soon as the WASM module is loaded, before the
\* engine is initialized.
OnloadRegisters_BeforeInitialize(step, ok) == step = "wasm" /\ ok

\* The step of onload's try block after which registerEditorSuggest runs.
OnloadRegisters(step, ok) == step = "initialize" /\ ok

\* onload: await this.loadWasmModule().  A failure goes to the catch block;
\* onload then ends by adding the settings tab.
OnloadLoadWasm(ok) ==
    /\ phase = "settings"
    /\ phase' = IF ok THEN "wasm" ELSE "done"
    /\ registered' = OnloadRegisters("wasm", ok)
    /\ persisted' = <<>>
    /\ UNCHANGED <<editorVars, emojiSearch, lastInitialize, settings,
                   engineLangs, pendingSaves, callVars>>

\* initialize(data) on an engine holding `loaded`: the whole set is replaced.
initialize(loaded, data) == data

\* How an initialize() call can end: it may throw as long as the engine has
\* not accepted the bundled dictionaries; once it has, it returns (the
\* dictionaries are constants of the bundle).
InitializeOutcomes(last) == IF last = "ok" THEN {TRUE} ELSE BOOLEAN

\* reinitializeEmojiSearch past its null check: initialize(filteredData)
Reinitialize(ok) ==
    /\ ok \in InitializeOutcomes(lastInitialize)
    /\ lastInitialize' = IF ok THEN "ok" ELSE "threw"
    /\ engineLangs' = IF ok
                      THEN initialize(engineLangs, filteredData(settings.chosenLanguages))
                      ELSE engineLangs

\* onload: this.emojiSearch = new EmojiSearch(); await
\* this.reinitializeEmojiSearch(); this.registerEditorSuggest(...).  A throw
\* of initialize goes to the catch block with this.emojiSearch already set.
OnloadInitialize(ok) ==
    /\ phase = "wasm"
    /\ phase' = "done"
    /\ emojiSearch' = TRUE
    /\ Reinitialize(ok)
    /\ registered' = (registered \/ OnloadRegisters("initialize", ok))
    /\ UNCHANGED <<persisted, editorVars, settings, pendingSaves, callVars>>

\* The empty query is not answered any more: only a missing engine is.
EarlyReturn_EngineOnly(query, engine) == ~engine

\* if (!context.query || !this.emojiSearch) return [];
EarlyReturn(query, engine) == query = <<>> \/ ~engine

\* The host calls getSuggestions of the registered suggester.
GetSuggestions(query, fault) ==
    LET early == EarlyReturn(query, emojiSearch)
        langs == IF early THEN <<>> ELSE LanguagesToSearch(settings.chosenLanguages, query)
        ret == IF early
               THEN [kind |-> "none", pairs |-> <<>>]
               ELSE EngineCall(engineLangs, query, langs, fault)
        ranked == IF early \/ TryThrows(ret) THEN <<>> ELSE RankedEntries(settings, query, ret)
        out == IF early
               THEN [raised |-> FALSE, value |-> <<>>]
               ELSE TryCatch(TryThrows(ret),
                             [i \in DOMAIN ranked |->
                                 RenderSuggestion(ranked[i], settings.showKeywords)])
    IN  /\ registered
        /\ ~called
        /\ called' = TRUE
        /\ ctxQuery' = query
        /\ languagesToSearch' = langs
        /\ engineReturn' = ret
        /\ emojisWithKeywords' = ranked
        /\ suggestions' = out.value
        /\ raised' = out.raised
        /\ UNCHANGED <<loadVars, editorVars, lastInitialize, settings, engineLangs, pendingSaves>>

\* onTrigger returns null (no match): the host closes the suggestion list.
CloseSuggestions ==
    /\ called
    /\ NoCall
    /\ UNCHANGED <<loadVars, editorVars, lastInitialize, settings, engineLangs, pendingSaves>>

\* selectSuggestion: value.split(' ')[0] when keywords are shown
SplitFirst(value) ==
    IF \E i \in DOMAIN value : value[i] = " "
    THEN SubSeq(value, 1, (CHOOSE i \in DOMAIN value :
                              /\ value[i] = " "
                              /\ \A j \in 1..(i - 1) : value[j] # " ") - 1)
    ELSE value

ExtractEmoji(value, showKeywords) ==
    IF showKeywords THEN SplitFirst(value) ELSE value

\* updateEmojiPopularity: if (!p[emoji]) p[emoji] = 0; p[emoji]++
updateEmojiPopularity(table, emoji) ==
    [e \in DOMAIN table \cup {emoji} |->
        IF e = emoji THEN Popularity(table, emoji) + 1 ELSE table[e]]

\* The change handler of a language checkbox.
LanguageCheckboxChange(chosen, langCode, checked) ==
    LET edited ==
            IF checked
            THEN IF \E i \in DOMAIN chosen : chosen[i] = langCode
                 THEN chosen
                 ELSE Append(chosen, langCode)
            ELSE IF \E i \in DOMAIN chosen : chosen[i] = langCode
                 THEN LET index == CHOOSE i \in DOMAIN chosen :
                                      /\ chosen[i] = langCode
                                      /\ \A j \in 1..(i - 1) : chosen[j] # langCode
                      IN  SubSeq(chosen, 1, index - 1) \o SubSeq(chosen, index + 1, Len(chosen))
                 ELSE chosen
    IN  IF Len(edited) = 0 THEN Append(edited, "english") ELSE edited

\* What the user can enter in the two inputs of a new custom mapping.
CustomKeywords == {<<"A", "1">>, <<"a">>}
CustomEmojis == {E2, E3}

\* An emoji input of two glyphs with a space between them, and the keyword
\* and emoji inputs of a session of the whole plugin.
E2_E1 == <<"e2", " ", "e1">>
TypedKeywords == {<<"a">>}
TypedEmojis == {E2, E2_E1}

\* saveSettings(): the write is awaited, the engine is reloaded afterwards.
saveSettings ==
    /\ pendingSaves < MaxPending
    /\ pendingSaves' = pendingSaves + 1
    /\ UNCHANGED <<loadVars, editorVars, lastInitialize, engineLangs>>

\* saveData() has resolved: if (this.emojiSearch) await
\* this.reinitializeEmojiSearch()
SaveDataDone(ok) ==
    /\ pendingSaves > 0
    /\ pendingSaves' = pendingSaves - 1
    /\ IF emojiSearch
       THEN Reinitialize(ok)
       ELSE ok /\ UNCHANGED <<lastInitialize, engineLangs>>
    /\ UNCHANGED <<loadVars, editorVars, settings, callVars>>

SelectSuggestion(i) ==
    /\ called
    /\ i \in DOMAIN suggestions
    /\ LET emoji == ExtractEmoji(suggestions[i], settings.showKeywords)
       IN  /\ Popularity(settings.emojiPopularity, emoji) < MaxPop
           /\ settings' = [settings EXCEPT
                  !.emojiPopularity = updateEmojiPopularity(@, emoji)]
    /\ saveSettings
    /\ NoCall

ToggleLanguage(langCode) ==
    /\ phase = "done"
    /\ ~called
    /\ settings' = [settings EXCEPT
           !.chosenLanguages = LanguageCheckboxChange(@, langCode,
                ~(\E i \in DOMAIN @ : @[i] = langCode))]
    /\ saveSettings
    /\ UNCHANGED callVars

ToggleShowKeywords ==
    /\ phase = "done"
    /\ ~called
    /\ settings' = [settings EXCEPT !.showKeywords = ~@]
    /\ saveSettings
    /\ UNCHANGED callVars

AddMapping(keyword, emoji) ==
    /\ phase = "done"
    /\ ~called
    /\ settings' = [settings EXCEPT
           !.customEmojiMappings = ObjSet(@, keyword, emoji)]
    /\ saveSettings
    /\ UNCHANGED callVars

DeleteMapping(keyword) ==
    /\ phase = "done"
    /\ ~called
    /\ keyword \in ObjKeys(settings.customEmojiMappings)
    /\ settings' = [settings EXCEPT
           !.customEmojiMappings = ObjDelete(@, keyword)]
    /\ saveSettings
    /\ UNCHANGED callVars

\* The reset of the custom mappings clears the usage counts as well.
ResetMappings_ClearsPopularity ==
    /\ phase = "done"
    /\ ~called
    /\ settings' = [settings EXCEPT !.customEmojiMappings = <<>>,
                                    !.emojiPopularity = <<>>]
    /\ saveSettings
    /\ UNCHANGED callVars

ResetMappings ==
    /\ phase = "done"
    /\ ~called
    /\ settings' = [settings EXCEPT !.customEmojiMappings = <<>>]
    /\ saveSettings
    /\ UNCHANGED callVars

ResetPopularity ==
    /\ phase = "done"
    /\ ~called
    /\ settings' = [settings EXCEPT !.emojiPopularity = <<>>]
    /\ saveSettings
    /\ UNCHANGED callVars

\* The change handler of the trigger-character field:
\* if (value) { triggerChar = value; await saveSettings(); }
\* The settings tab has the focus: no trigger is active in the editor.
SetTriggerChar(value) ==
    /\ phase = "done"
    /\ ~called
    /\ ~triggerInfo.matched
    /\ IF value # <<>>
       THEN /\ settings' = [settings EXCEPT !.triggerChar = value]
            /\ saveSettings
            /\ UNCHANGED callVars
       ELSE UNCHANGED vars

\* The queries of a session of the whole plugin.
SessionQueries == {<<"a">>, <<"zh">>}

Next ==
    \/ \E loaded \in PersistedData : OnloadLoadSettings(loaded)
    \/ \E ok \in BOOLEAN : OnloadLoadWasm(ok)
    \/ \E ok \in BOOLEAN : OnloadInitialize(ok)
    \/ \E q \in SessionQueries : GetSuggestions(q, "none")
    \/ CloseSuggestions
    \/ \E i \in 1..3 : SelectSuggestion(i)
    \/ \E l \in AVAILABLE_LANGUAGES : ToggleLanguage(l)
    \/ ToggleShowKeywords
    \/ \E k \in TypedKeywords, e \in TypedEmojis : AddMapping(k, e)
    \/ \E k \in TypedKeywords : DeleteMapping(k)
    \/ ResetMappings
    \/ ResetPopularity
    \/ \E ok \in BOOLEAN : SaveDataDone(ok)

Spec == Init /\ [][Next]_vars

----------------------------------------------------------------------------
(* getSuggestions as a function of the settings, the query and the engine's *)
(* answer: the settings are drawn from the values the settings tab and      *)
(* selectSuggestion can produce.                                            *)

EmojiStrings == {E1, E2, E3}

LanguageLists ==
    {l \in SeqsUpTo(BundledLanguages, 3) :
        \A i, j \in DOMAIN l : i # j => l[i] # l[j]}

PopTables == UNION {[D -> 1..MaxPop] : D \in SUBSET EmojiStrings}

CustomTables ==
    {t \in SeqsUpTo(CustomKeywords \X CustomEmojis, Cardinality(CustomKeywords)) :
        \A i, j \in DOMAIN t : i # j => t[i][1] # t[j][1]}

\* Language lists under which the merge is exercised with every popularity
\* table and custom-mapping table; every language list is exercised with the
\* default tables.
\* The queries a faulty engine is tried on.
FaultQueries == {q \in TriggerQueries : Len(q) = 1}

MergeLanguageLists ==
    {<<"english", "spanish">>, <<"spanish", "russian", "english">>, <<"russian">>}

SuggestSettings ==
    {s \in [chosenLanguages : LanguageLists,
            triggerChar : {DEFAULT_SETTINGS.triggerChar},
            showKeywords : BOOLEAN,
            emojiPopularity : PopTables,
            customEmojiMappings : CustomTables] :
        \/ s.chosenLanguages \in MergeLanguageLists
        \/ (s.emojiPopularity = <<>> /\ s.customEmojiMappings = <<>>)}

InitSuggest ==
    /\ persisted = <<>>
    /\ subString = <<>>
    /\ triggerInfo = NoTrigger
    /\ phase = "done"
    /\ emojiSearch = TRUE
    /\ registered = TRUE
    /\ lastInitialize = "ok"
    /\ settings \in SuggestSettings
    /\ engineLangs = filteredData(settings.chosenLanguages)
    /\ pendingSaves = 0
    /\ InitCall

NextSuggest ==
    \/ \E q \in TriggerQueries \cup {<<>>} : GetSuggestions(q, "none")
    \/ \E q \in FaultQueries, f \in EngineFaults \ {"none"} : GetSuggestions(q, f)
    \/ CloseSuggestions

SpecSuggest == InitSuggest /\ [][NextSuggest]_vars

----------------------------------------------------------------------------
(* The trigger: the trigger-character field of the settings tab and         *)
(* onTrigger as a function of the text before the cursor, after an onload   *)
(* that found no saved data.                                                *)

LineChars == {":", "a", " "}
Lines == SeqsUpTo(LineChars, MaxLineLen)

\* What the user can leave in the trigger-character field.
TriggerInputs == {<<>>, <<":">>, <<"a">>, <<":", ":">>}

InitTrigger ==
    /\ persisted = <<>>
    /\ subString = <<>>
    /\ triggerInfo = NoTrigger
    /\ phase = "done"
    /\ emojiSearch = TRUE
    /\ registered = TRUE
    /\ lastInitialize = "ok"
    /\ settings = DEFAULT_SETTINGS
    /\ engineLangs = filteredData(settings.chosenLanguages)
    /\ pendingSaves = 0
    /\ InitCall

NextTrigger ==
    \/ \E line \in Lines : OnTrigger(line)
    \/ \E value \in TriggerInputs : SetTriggerChar(value)
    \/ \E ok \in BOOLEAN : SaveDataDone(ok)

SpecTrigger == InitTrigger /\ [][NextTrigger]_vars

----------------------------------------------------------------------------
(* onload over the data.json files a vault can hold: every member of the    *)
(* saved object is there or not, independently of the others.               *)

\* An object with the member `name` (one of `values`) or without it.
Member(name, values) == {<<>>} \cup {[f \in {name} |-> v] : v \in values}

PersistedInputs ==
    {l @@ d @@ t @@ k @@ p @@ c :
        l \in Member("chosenLanguages",
                     {<<>>, <<"russian">>, <<"spanish", "english">>}),
        d \in Member("defaultLanguage", {"", "english", "russian"}),
        t \in Member("triggerChar", {<<"!">>}),
        k \in Member("showKeywords", {FALSE}),
        p \in Member("emojiPopularity", {[e \in {E1} |-> 1]}),
        c \in Member("customEmojiMappings", {<< <<<<"a">>, E2>> >>})}

NextLoad ==
    \/ \E loaded \in PersistedInputs : OnloadLoadSettings(loaded)
    \/ \E ok \in BOOLEAN : OnloadLoadWasm(ok)
    \/ \E ok \in BOOLEAN : OnloadInitialize(ok)

SpecLoad == Init /\ [][NextLoad]_vars

----------------------------------------------------------------------------
(* Claims about getSuggestions *)

Range(seq) == {seq[i] : i \in DOMAIN seq}

\* The emojis of the engine's answer, in the order the answer lists them.
RECURSIVE AnswerEmojis(_)
AnswerEmojis(pairs) ==
    IF pairs = <<>> THEN <<>> ELSE Head(pairs).emojis \o AnswerEmojis(Tail(pairs))

\* The custom mappings whose lowercased keyword contains the lowercased query.
MatchingCustom ==
    SelectSeq(settings.customEmojiMappings,
              LAMBDA e : includes(toLowerCase(e[1]), toLowerCase(ctxQuery)))

\* A sequence without its repetitions: the first occurrence of each element.
FirstOccurrences(seq) ==
    LET tagged == [i \in DOMAIN seq |-> <<i, seq[i]>>]
        kept == SelectSeq(tagged, LAMBDA t : \A j \in 1..(t[1] - 1) : seq[j] # t[2])
    IN  [i \in DOMAIN kept |-> kept[i][2]]

PositionIn(seq, x) == CHOOSE i \in DOMAIN seq : seq[i] = x

Count(e) == Popularity(settings.emojiPopularity, e)

\* C1: the list getSuggestions returns holds each emoji at most once, also
\* when the emoji is listed under several keywords, in several languages and
\* in matching custom mappings.
C1_NoDuplicateEmoji ==
    called =>
        /\ Len(suggestions) = Len(emojisWithKeywords)
        /\ \A i, j \in DOMAIN emojisWithKeywords :
              i # j => /\ emojisWithKeywords[i][1] # emojisWithKeywords[j][1]
                       /\ suggestions[i] # suggestions[j]

C1_Witness ==
    /\ called
    /\ Len(languagesToSearch) >= 2
    /\ \E e \in Range(AnswerEmojis(engineReturn.pairs)) :
          /\ Cardinality({i \in DOMAIN engineReturn.pairs :
                              e \in Range(engineReturn.pairs[i].emojis)}) >= 2
          /\ \E i \in DOMAIN MatchingCustom : MatchingCustom[i][2] = e
          /\ \E i \in DOMAIN emojisWithKeywords : emojisWithKeywords[i][1] = e

\* C2: an emoji with a strictly greater usage count comes before one with a
\* smaller count (no entry counts as 0).
C2_PopularityOrder ==
    called =>
        \A i, j \in DOMAIN emojisWithKeywords :
            Count(emojisWithKeywords[i][1]) > Count(emojisWithKeywords[j][1]) => i < j

C2_Witness ==
    /\ called
    /\ Len(emojisWithKeywords) = 3
    /\ Count(emojisWithKeywords[1][1]) > Count(emojisWithKeywords[3][1])
    /\ AnswerEmojis(engineReturn.pairs)[1] = emojisWithKeywords[3][1]

\* The order of the emoji-to-keyword map after the overlay: the emojis of
\* the engine's answer in first-seen order, then the emojis only matching
\* custom mappings bring, in the order of the custom mappings.
OverlayOrder ==
    FirstOccurrences(AnswerEmojis(engineReturn.pairs)
                        \o [i \in DOMAIN MatchingCustom |-> MatchingCustom[i][2]])

\* C3: emojis of equal popularity keep the order of the map after the
\* overlay (a keyword overwritten by a custom mapping does not move its emoji).
C3_TiesKeepMapOrder ==
    called =>
        \A i, j \in DOMAIN emojisWithKeywords :
            (i < j /\ Count(emojisWithKeywords[i][1]) = Count(emojisWithKeywords[j][1]))
                => /\ emojisWithKeywords[i][1] \in Range(OverlayOrder)
                   /\ emojisWithKeywords[j][1] \in Range(OverlayOrder)
                   /\ PositionIn(OverlayOrder, emojisWithKeywords[i][1])
                        < PositionIn(OverlayOrder, emojisWithKeywords[j][1])

C3_Witness ==
    /\ called
    /\ Len(emojisWithKeywords) = 3
    /\ \A i \in 1..3 : Count(emojisWithKeywords[i][1]) = Count(emojisWithKeywords[1][1])
    /\ emojisWithKeywords[1][1] \in Range(AnswerEmojis(engineReturn.pairs))
    /\ \E k \in DOMAIN MatchingCustom : MatchingCustom[k] = <<emojisWithKeywords[1][2], emojisWithKeywords[1][1]>>
    /\ emojisWithKeywords[2][1] \in Range(AnswerEmojis(engineReturn.pairs))
    /\ emojisWithKeywords[3][1] \notin Range(AnswerEmojis(engineReturn.pairs))

\* What the script of the query keeps of the chosen languages.
HasCyrillic == RegexTest(CyrillicRange, ctxQuery)
HasSpanish == RegexTest(SpanishDiacritics, ctxQuery)
ChosenSet == Range(settings.chosenLanguages)
NarrowingKeeps(lang) ==
    \/ HasCyrillic /\ lang = "russian"
    \/ ~HasCyrillic /\ HasSpanish /\ lang = "spanish"
    \/ ~HasCyrillic /\ ~HasSpanish /\ lang # "russian"

\* The call went past the early return and asked the engine.
EngineConsulted == engineReturn.kind # "none"

\* C4: with a chosen language, the engine is never asked about no language;
\* when the narrowing keeps none, it is asked about the whole chosen list, in
\* its order.
C4_LanguageFallback ==
    (called /\ EngineConsulted) =>
        /\ Len(settings.chosenLanguages) > 0 => Len(languagesToSearch) > 0
        /\ (\A l \in ChosenSet : ~NarrowingKeeps(l))
              => languagesToSearch = settings.chosenLanguages

C4_Witness ==
    /\ called
    /\ Len(settings.chosenLanguages) >= 2
    /\ \A l \in ChosenSet : ~NarrowingKeeps(l)
    /\ languagesToSearch = settings.chosenLanguages

\* C5: a query with a Cyrillic character is searched in russian alone when
\* russian is chosen, whatever else the query holds.
C5_CyrillicSearchesRussian ==
    (called /\ HasCyrillic /\ "russian" \in ChosenSet)
        => Range(languagesToSearch) = {"russian"}

C5_Witness ==
    /\ called
    /\ HasCyrillic
    /\ HasSpanish
    /\ ChosenSet = {"english", "russian", "spanish"}
    /\ languagesToSearch = <<"russian">>

\* C6: a query with a Spanish-diacritic character and no Cyrillic one is
\* searched in spanish alone when spanish is chosen.
C6_SpanishSearchesSpanish ==
    (called /\ ~HasCyrillic /\ HasSpanish /\ "spanish" \in ChosenSet)
        => Range(languagesToSearch) = {"spanish"}

C6_Witness ==
    /\ called
    /\ ~HasCyrillic
    /\ HasSpanish
    /\ RegexTest(LatinLetters, ctxQuery)
    /\ ChosenSet = {"english", "russian", "spanish"}
    /\ languagesToSearch = <<"spanish">>

\* C7: a query with neither is searched in the chosen languages other than
\* russian, in their stored order, when there is one.
C7_LatinSearchesAllButRussian ==
    (called /\ EngineConsulted /\ ~HasCyrillic /\ ~HasSpanish
            /\ ChosenSet \ {"russian"} # {})
        => languagesToSearch
              = SelectSeq(settings.chosenLanguages, LAMBDA l : l # "russian")

C7_Witness ==
    /\ called
    /\ ~HasCyrillic
    /\ ~HasSpanish
    /\ settings.chosenLanguages = <<"spanish", "russian", "english">>
    /\ languagesToSearch = <<"spanish", "english">>

\* The engine's answer can be walked as a list of [keyword, emojis] elements
\* without an exception.
AnswerIsWalked ==
    /\ engineReturn.kind = "pairs"
    /\ \A i \in DOMAIN engineReturn.pairs : engineReturn.pairs[i].form # "missing"

\* The custom keywords that match the query and map to emoji e.
MatchingKeywordsOf(e) ==
    {MatchingCustom[i][1] : i \in {k \in DOMAIN MatchingCustom : MatchingCustom[k][2] = e}}

\* Every emoji of a matching custom mapping is in the returned list, under a
\* matching custom keyword of its own.
CustomMappingsShown ==
    \A k \in DOMAIN MatchingCustom :
        \E i \in DOMAIN emojisWithKeywords :
            /\ emojisWithKeywords[i][1] = MatchingCustom[k][2]
            /\ emojisWithKeywords[i][2] \in MatchingKeywordsOf(MatchingCustom[k][2])
            /\ i \in DOMAIN suggestions
            /\ suggestions[i] =
                  IF settings.showKeywords
                  THEN emojisWithKeywords[i][1] \o <<" ", "(">>
                          \o emojisWithKeywords[i][2] \o <<")">>
                  ELSE emojisWithKeywords[i][1]

\* C8 as stated: for a non-empty query every matching custom mapping puts its
\* emoji in the result under a matching custom keyword.
C8_Original ==
    (called /\ ctxQuery # <<>>) => CustomMappingsShown

\* C8 as amended: the same, when the engine's answer is walked without an
\* exception (otherwise the result is empty and shows no custom mapping).
C8_CustomMappingsShown ==
    (called /\ ctxQuery # <<>> /\ AnswerIsWalked) => CustomMappingsShown

C8_Witness ==
    /\ called
    /\ AnswerIsWalked
    /\ settings.showKeywords
    /\ \E k \in DOMAIN MatchingCustom :
          MatchingCustom[k][2] \in Range(AnswerEmojis(engineReturn.pairs))
    /\ \E k \in DOMAIN MatchingCustom :
          MatchingCustom[k][2] \notin Range(AnswerEmojis(engineReturn.pairs))
    /\ Len(suggestions) = 3

\* The first element of the engine's answer that lists emoji e.
FirstPairWith(e) ==
    CHOOSE i \in DOMAIN engineReturn.pairs :
        /\ e \in Range(engineReturn.pairs[i].emojis)
        /\ \A j \in 1..(i - 1) : e \notin Range(engineReturn.pairs[j].emojis)

\* C9: an emoji without a matching custom mapping carries the keyword of the
\* first element of the engine's answer that lists it, and among such emojis
\* of equal popularity the order is that of their first listing.
C9_FirstKeywordWins ==
    called =>
        \A i \in DOMAIN emojisWithKeywords :
            MatchingKeywordsOf(emojisWithKeywords[i][1]) = {}
                => /\ emojisWithKeywords[i][1] \in Range(AnswerEmojis(engineReturn.pairs))
                   /\ emojisWithKeywords[i][2]
                        = engineReturn.pairs[FirstPairWith(emojisWithKeywords[i][1])].keyword
                   /\ \A j \in DOMAIN emojisWithKeywords :
                        (/\ i < j
                         /\ MatchingKeywordsOf(emojisWithKeywords[j][1]) = {}
                         /\ Count(emojisWithKeywords[i][1]) = Count(emojisWithKeywords[j][1]))
                            => PositionIn(AnswerEmojis(engineReturn.pairs), emojisWithKeywords[i][1])
                                < PositionIn(AnswerEmojis(engineReturn.pairs), emojisWithKeywords[j][1])

C9_Witness ==
    /\ called
    /\ Len(languagesToSearch) >= 2
    /\ \E i \in DOMAIN emojisWithKeywords :
          /\ MatchingKeywordsOf(emojisWithKeywords[i][1]) = {}
          /\ \E a, b \in DOMAIN engineReturn.pairs :
                /\ a < b
                /\ emojisWithKeywords[i][1] \in Range(engineReturn.pairs[a].emojis)
                /\ emojisWithKeywords[i][1] \in Range(engineReturn.pairs[b].emojis)
                /\ engineReturn.pairs[a].keyword # engineReturn.pairs[b].keyword
                /\ emojisWithKeywords[i][2] = engineReturn.pairs[a].keyword

\* The engine's answer is not a list of [keyword, emoji-list] pairs.
AnswerIsMalformed ==
    \/ engineReturn.kind # "pairs"
    \/ \E i \in DOMAIN engineReturn.pairs : engineReturn.pairs[i].form # "list"

\* C10 as stated: no exception escapes, and a call that threw, or an answer
\* that is not JSON or not a list of [keyword, emoji-list] pairs, gives the
\* empty list.
C10_Original ==
    /\ ~raised
    /\ (called /\ AnswerIsMalformed) => suggestions = <<>>

\* C10 as amended: no exception escapes; a call that threw, an answer that is
\* not JSON, and an answer that cannot be iterated as a list of elements with
\* an iterable emoji member give the empty list; the call changes no setting.
C10_NeverRaises ==
    /\ [](~raised)
    /\ []((called /\ ~AnswerIsWalked) => suggestions = <<>>)
    /\ [][called' => settings' = settings]_vars

C10_Witness ==
    /\ called
    /\ engineReturn.kind = "text"
    /\ MatchingCustom # <<>>
    /\ suggestions = <<>>

----------------------------------------------------------------------------
(* Claims about accepting a suggestion and the usage counts *)

\* The host accepts the i-th suggestion of the list.
Accepts(i) == i \in DOMAIN suggestions /\ SelectSuggestion(i)

\* The usage counts after the step differ from those before it.
PopularityChanged ==
    \E e \in DOMAIN settings.emojiPopularity \cup DOMAIN settings'.emojiPopularity :
        Popularity(settings'.emojiPopularity, e) # Popularity(settings.emojiPopularity, e)

\* C11: accepting a suggestion raises the usage count of the emoji of that
\* suggestion by exactly 1 (no entry counts as 0) and leaves every other
\* count as it was.
C11_SelectRaisesByOne ==
    [][\A i \in DOMAIN emojisWithKeywords :
          Accepts(i) =>
              LET emoji == emojisWithKeywords[i][1]
              IN  /\ Popularity(settings'.emojiPopularity, emoji)
                        = Popularity(settings.emojiPopularity, emoji) + 1
                  /\ \A e \in (DOMAIN settings.emojiPopularity
                                  \cup DOMAIN settings'.emojiPopularity) \ {emoji} :
                        Popularity(settings'.emojiPopularity, e)
                            = Popularity(settings.emojiPopularity, e)]_vars

\* C12 as stated: once the settings are loaded, only accepting a suggestion
\* changes a usage count.
C12_Original ==
    [][(phase # "constructed" /\ PopularityChanged)
          => \E i \in DOMAIN suggestions : Accepts(i)]_vars

\* C12 as amended: once the settings are loaded, a usage count changes only
\* when a suggestion is accepted or when the settings tab's reset of the
\* emoji popularity empties the whole table.
C12_OnlySelectAndReset ==
    [][(phase # "constructed" /\ PopularityChanged)
          => \/ \E i \in DOMAIN suggestions : Accepts(i)
             \/ ResetPopularity /\ settings'.emojiPopularity = <<>>]_vars

C12_Witness ==
    /\ called
    /\ Len(suggestions) >= 2
    /\ Popularity(settings.emojiPopularity, emojisWithKeywords[1][1]) > 0
    /\ settings.customEmojiMappings # <<>>
    /\ ~settings.showKeywords
    /\ Len(settings.chosenLanguages) >= 2
    /\ pendingSaves = 0

\* C13: for every pair getSuggestions renders, selectSuggestion extracts the
\* pair's emoji from the rendered string under the same display flag.
C13_DisplayRoundTrip ==
    called =>
        /\ Len(suggestions) = Len(emojisWithKeywords)
        /\ \A i \in DOMAIN suggestions :
              ExtractEmoji(suggestions[i], settings.showKeywords)
                  = emojisWithKeywords[i][1]

----------------------------------------------------------------------------
(* Claims about loading, initialization and reinitialization *)

\* C14: once the settings are loaded, chosenLanguages is never empty,
\* whatever was persisted; and unchecking the only chosen language leaves
\* the list equal to [english].
C14_ChosenLanguagesNonEmpty ==
    /\ [](phase # "constructed" => Len(settings.chosenLanguages) > 0)
    /\ [][\A l \in AVAILABLE_LANGUAGES :
              (settings.chosenLanguages = <<l>> /\ ToggleLanguage(l))
                  => settings'.chosenLanguages = <<"english">>]_vars

\* C15: the suggester is registered only when onload has loaded the
\* settings, loaded the WASM module and initialized the engine, in that
\* order and each with success; so every getSuggestions call meets an
\* initialized engine.
C15_NoQueryBeforeInit ==
    /\ registered => (phase = "done" /\ emojiSearch /\ lastInitialize = "ok")
    /\ called => (registered /\ lastInitialize = "ok")
    /\ phase \in {"constructed", "settings"} => (~emojiSearch /\ lastInitialize = "none")

C15_Witness ==
    /\ called
    /\ EngineConsulted
    /\ Len(suggestions) > 0
    /\ lastInitialize = "ok"
    /\ Len(settings.chosenLanguages) = 1
    /\ settings.customEmojiMappings = <<>>
    /\ pendingSaves = 0

\* onload has ended without registering the suggester.
OnloadFailed == phase = "done" /\ ~registered

\* A step that invokes initialize() on the engine.
InitializeInvoked ==
    \/ \E ok \in BOOLEAN : OnloadInitialize(ok)
    \/ emojiSearch /\ \E ok \in BOOLEAN : SaveDataDone(ok)

\* C16: when onload failed to load the WASM module or to initialize the
\* engine, no suggestion list is produced afterwards and no later step
\* invokes initialize again.
C16_NoRetryAfterFailure ==
    /\ [](OnloadFailed => (~called /\ suggestions = <<>>))
    /\ [][OnloadFailed => ~InitializeInvoked]_vars

\* The chosen languages that have a bundled dictionary.
BundledChosen == ChosenSet \cap {"english", "russian", "spanish"}

----------------------------------------------------------------------------
(* Claims about what getSuggestions returns: completeness, the empty query, *)
(* and the role of the usage counts                                         *)

\* The dictionary entries of the searched languages the engine has loaded
\* whose keyword contains the query, case-insensitively.
MatchedEntries ==
    UNION {{emojiData(l)[k] : k \in {n \in DOMAIN emojiData(l) :
                includes(toLowerCase(emojiData(l)[n].keyword), toLowerCase(ctxQuery))}} :
           l \in Range(languagesToSearch) \cap engineLangs}

MatchedEmojis == UNION {Range(e.emojis) : e \in MatchedEntries}

\* Emoji e is in the returned list.
Returned(e) ==
    \E i \in DOMAIN emojisWithKeywords :
        /\ emojisWithKeywords[i][1] = e
        /\ i \in DOMAIN suggestions
        /\ SubSeq(suggestions[i], 1, Len(e)) = e

\* C18 as stated: for a non-empty query, every emoji of a matched dictionary
\* entry is in the returned list.
C18_Original ==
    (called /\ ctxQuery # <<>>) => \A e \in MatchedEmojis : Returned(e)

\* C18 as amended: the same, when the engine's answer is the engine's search
\* result and is walked without an exception (otherwise the list is empty).
C18_MatchedEmojisReturned ==
    (called /\ ctxQuery # <<>> /\ AnswerIsWalked)
        => \A e \in MatchedEmojis : Returned(e)

C18_Witness ==
    /\ called
    /\ AnswerIsWalked
    /\ Len(languagesToSearch) >= 2
    /\ Cardinality(MatchedEntries) >= 3
    /\ Cardinality(MatchedEmojis) >= 2
    /\ Len(suggestions) = Cardinality(MatchedEmojis)
    /\ MatchingCustom # <<>>

\* C19: for the empty query getSuggestions returns the empty list and does
\* not ask the engine; no custom mapping is shown.
C19_EmptyQueryEmptyResult ==
    (called /\ ctxQuery = <<>>)
        => /\ suggestions = <<>>
           /\ emojisWithKeywords = <<>>
           /\ ~EngineConsulted
           /\ languagesToSearch = <<>>

C19_Witness ==
    /\ called
    /\ ctxQuery = <<>>
    /\ Len(settings.customEmojiMappings) = 2
    /\ engineLangs = {"english", "spanish"}
    /\ suggestions = <<>>

\* What the same call ranks and returns when no emoji has a usage count.
RankedWithoutCounts ==
    IF ~EngineConsulted \/ TryThrows(engineReturn)
    THEN <<>>
    ELSE RankedEntries([settings EXCEPT !.emojiPopularity = <<>>], ctxQuery, engineReturn)

ReturnedWithoutCounts ==
    [i \in DOMAIN RankedWithoutCounts |->
        RenderSuggestion(RankedWithoutCounts[i], settings.showKeywords)]

\* C20: the set of (emoji, keyword) pairs of a call, and the set of strings
\* it returns, are those of the same call made with no usage count at all;
\* hence two calls that differ in the usage counts alone return the same set.
C20_PopularityKeepsMembership ==
    called =>
        /\ Range(emojisWithKeywords) = Range(RankedWithoutCounts)
        /\ Len(emojisWithKeywords) = Len(RankedWithoutCounts)
        /\ Range(suggestions) = Range(ReturnedWithoutCounts)

C20_Witness ==
    /\ called
    /\ Len(emojisWithKeywords) = 3
    /\ emojisWithKeywords[1] = RankedWithoutCounts[3]
    /\ Count(emojisWithKeywords[1][1]) > Count(emojisWithKeywords[2][1])
    /\ Count(emojisWithKeywords[3][1]) = 0

----------------------------------------------------------------------------
(* Claims about the trigger, the settings load and the race between a save  *)
(* and a query                                                              *)

HasWhitespace(s) == \E k \in DOMAIN s : s[k] = " "

\* The trigger in force when the span in triggerInfo was computed: the
\* trigger-character field is edited only while no span is held.
Trigger == settings.triggerChar

\* C21 as stated: whenever onTrigger returns a span, the text between the
\* matched trigger and the cursor, and the query, contain no whitespace.
C21_Original ==
    triggerInfo.matched =>
        /\ ~HasWhitespace(Capture(subString, Trigger, MatchIndex(subString, Trigger)))
        /\ ~HasWhitespace(triggerInfo.query)

\* s ends with t, a letter, and letters or spaces up to its end.
EndsWithTriggerAndLetter(s, t) ==
    \E i \in 1..(Len(s) - Len(t)) :
        /\ SubSeq(s, i, i + Len(t) - 1) = t
        /\ s[i + Len(t)] \in TriggerFirstClass
        /\ \A k \in (i + Len(t) + 1)..Len(s) : s[k] \in TriggerFirstClass \cup {" "}

\* s ends with t, then q, then spaces only.
EndsWithTriggerAndQuery(s, t, q) ==
    \E n \in 0..Len(s) :
        /\ Len(s) >= Len(t) + Len(q) + n
        /\ SubSeq(s, Len(s) - n - Len(q) - Len(t) + 1, Len(s)) =
              t \o q \o [k \in 1..n |-> " "]

SpanAsAmended ==
    /\ triggerInfo.matched <=> EndsWithTriggerAndLetter(subString, Trigger)
    /\ triggerInfo.matched =>
          /\ triggerInfo.query # <<>>
          /\ triggerInfo.query[1] \in TriggerFirstClass
          /\ triggerInfo.query[Len(triggerInfo.query)] # " "
          /\ \A k \in DOMAIN triggerInfo.query :
                triggerInfo.query[k] \in TriggerFirstClass \cup {" "}
          /\ EndsWithTriggerAndQuery(subString, Trigger, triggerInfo.query)

\* C21 as amended: onTrigger returns a span exactly when the text before the
\* cursor ends with the trigger, a letter, and then letters or spaces; the
\* query is that text without its trailing spaces, so it is not empty,
\* begins with a letter, ends with no space, and may hold spaces inside.
C21_SpanAfterLettersAndSpaces ==
    [][OnTrigger(subString') => SpanAsAmended']_vars

C21_Witness ==
    /\ triggerInfo.matched
    /\ HasWhitespace(triggerInfo.query)
    /\ subString = <<":", "a", " ", "a">>

\* C22: the triggerChar setting is one character long in every reachable
\* state.
C22_TriggerCharIsOneChar == Len(settings.triggerChar) = 1

\* The persisted data holds the legacy single-language member (a language
\* name) and no language list.
LegacyOnly ==
    /\ "defaultLanguage" \in DOMAIN persisted
    /\ persisted.defaultLanguage # ""
    /\ "chosenLanguages" \notin DOMAIN persisted

\* C23: after loadSettings, persisted data with defaultLanguage = L and no
\* chosenLanguages has given chosenLanguages = [L] and no defaultLanguage
\* member; a persisted chosenLanguages is kept whatever defaultLanguage
\* holds; every other persisted option is kept, and every option absent
\* from the persisted data has its default value.
C23_LoadMergesAndMigrates ==
    phase = "settings" =>
        /\ LegacyOnly =>
              /\ settings.chosenLanguages = <<persisted.defaultLanguage>>
              /\ "defaultLanguage" \notin DOMAIN settings
        /\ "chosenLanguages" \in DOMAIN persisted =>
              settings.chosenLanguages = persisted.chosenLanguages
        /\ \A f \in DOMAIN DEFAULT_SETTINGS :
              IF f \in DOMAIN persisted
              THEN settings[f] = persisted[f]
              ELSE (f = "chosenLanguages" /\ LegacyOnly) \/ settings[f] = DEFAULT_SETTINGS[f]

C23_Witness ==
    /\ phase = "settings"
    /\ LegacyOnly
    /\ persisted.defaultLanguage = "russian"
    /\ settings.chosenLanguages = <<"russian">>
    /\ "triggerChar" \notin DOMAIN persisted
    /\ settings.triggerChar = <<":">>
    /\ "showKeywords" \in DOMAIN persisted
    /\ settings.showKeywords = FALSE

\* C24: at every getSuggestions call, each language passed to the engine
\* that has a bundled dictionary is loaded in the engine.
C24_SearchedLanguagesLoaded ==
    [][(~called /\ called')
          => (Range(languagesToSearch') \cap BundledLanguages) \subseteq engineLangs']_vars

\* C25: whenever onTrigger returns a span, end is the cursor, start is the
\* position of the trigger occurrence at which the match begins, and the
\* query is the trimmed text from the end of that occurrence to the cursor.
C25_SpanConsistentWithQuery ==
    triggerInfo.matched =>
        /\ triggerInfo.end = Len(subString)
        /\ triggerInfo.start = MatchIndex(subString, Trigger)
        /\ triggerInfo.query =
              trim(Capture(subString, Trigger, MatchIndex(subString, Trigger)))

============================================================================
